---- MODULE Spec2Model ----
(***************************************************************************)
(* doc/conf.py of tarantool/tntcxx: the configuration script the           *)
(* documentation generator executes.  One action per statement of the      *)
(* script; the state is the interpreter state the script reads and writes: *)
(* the namespace it is executed in, sys.path and the working directory.    *)
(*                                                                         *)
(* A Python str is modelled as the sequence of its '/'-separated           *)
(* components, i.e. as s.split('/'): 'doc/locale' is <<"doc", "locale">>,  *)
(* './doc/locale' is <<".", "doc", "locale">>, '/srv' is <<"", "srv">> and *)
(* '' is <<"">>.  Two str are equal iff their component sequences are.     *)
(***************************************************************************)
EXTENDS Integers, Sequences, FiniteSets, TLC

\* ---------------------------------------------------------------- bounds
\* longest sys.path the interpreter starts with
MaxPath == 2
\* number of times the script is executed in one process
MaxLoads == 2

\* working directories the script may be executed from (as os.getcwd()
\* reports them: absolute and normalised)
Dirs == { <<"", "srv">>, <<"", "srv", "tntcxx">>, <<"", "tmp">> }

\* the sys.path values the interpreter may start with
InitialPaths == UNION { [1..n -> Dirs] : n \in 0..MaxPath }

\* ------------------------------------------------------------------ state
VARIABLES
    pc,          \* the statement of conf.py executed next, "done" or "error"
    ns,          \* the namespace conf.py is executed in: name -> value
    sys_path,    \* sys.path
    cwd,         \* the process's working directory
    cwd_exists,  \* FALSE when that directory has been removed
    loads,       \* executions of conf.py started so far
    start,       \* history: sys.path and working directory when this load began
    first        \* history: the options as the first completed load left them

vars == << pc, ns, sys_path, cwd, cwd_exists, loads, start, first >>

\* --------------------------------------------------------- Python values
Str(s) == [kind |-> "str", v |-> s]
List(l) == [kind |-> "list", v |-> l]
Bool(b) == [kind |-> "bool", v |-> b]
Module(m) == [kind |-> "module", v |-> m]

Min(a, b) == IF a < b THEN a ELSE b

\* str + str on component sequences: the last component of s and the first
\* component of t become one component
StrConcat(s, t) ==
    SubSeq(s, 1, Len(s) - 1) \o << s[Len(s)] \o t[1] >> \o Tail(t)

\* variant: sys.path[0:1] = [x], which overwrites the entry at index i
ListInsert_overwrite(l, i, x) ==
    SubSeq(l, 1, Min(i, Len(l))) \o << x >> \o SubSeq(l, Min(i, Len(l)) + 2, Len(l))

\* variant: `if x not in sys.path: sys.path.insert(i, x)`
ListInsert_ifabsent(l, i, x) ==
    IF \E k \in DOMAIN l : l[k] = x THEN l
    ELSE SubSeq(l, 1, Min(i, Len(l))) \o << x >> \o SubSeq(l, Min(i, Len(l)) + 1, Len(l))

\* list.insert(i, x) for i >= 0: x goes before index i, or at the end when
\* i is past the end; nothing is removed
ListInsert(l, i, x) ==
    SubSeq(l, 1, Min(i, Len(l))) \o << x >> \o SubSeq(l, Min(i, Len(l)) + 1, Len(l))

\* ------------------------------------------------------- os.path (posix)
\* path.startswith('/')
isabs(p) == Len(p) >= 2 /\ p[1] = ""

\* os.path.join(a, b)
join(a, b) ==
    IF isabs(b) THEN b
    ELSE IF a = <<"">> \/ a[Len(a)] = "" THEN StrConcat(a, b)
    ELSE a \o b

\* number of leading slashes normpath keeps: 0, 1, or 2 for exactly '//'
initial_slashes(p) ==
    IF ~isabs(p) THEN 0
    ELSE IF Len(p) >= 3 /\ p[2] = "" /\ ~(Len(p) >= 4 /\ p[3] = "") THEN 2
    ELSE 1

\* the loop of normpath over path.split('/'): comps still to read, new_comps
\* collected so far, slashes = initial_slashes
RECURSIVE new_comps_of(_, _, _)
new_comps_of(comps, new_comps, slashes) ==
    IF comps = << >> THEN new_comps
    ELSE LET comp == Head(comps)
             rest == Tail(comps)
         IN  IF comp \in {"", "."} THEN new_comps_of(rest, new_comps, slashes)
             ELSE IF \/ comp # ".."
                     \/ (slashes = 0 /\ new_comps = << >>)
                     \/ (new_comps # << >> /\ new_comps[Len(new_comps)] = "..")
                  THEN new_comps_of(rest, Append(new_comps, comp), slashes)
             ELSE IF new_comps # << >>
                  THEN new_comps_of(rest, SubSeq(new_comps, 1, Len(new_comps) - 1), slashes)
             ELSE new_comps_of(rest, new_comps, slashes)

\* os.path.normpath(path)
normpath(p) ==
    LET slashes == initial_slashes(p)
        comps   == new_comps_of(p, << >>, slashes)
        prefix  == [i \in 1..slashes |-> ""]
    IN  IF slashes = 0
        THEN (IF comps = << >> THEN <<".">> ELSE comps)
        ELSE IF comps = << >> THEN prefix \o <<"">> ELSE prefix \o comps

\* os.path.abspath(path) in working directory wd (the value of os.getcwd())
abspath(p, wd) == normpath(IF isabs(p) THEN p ELSE join(wd, p))

\* ------------------------------------------- the values conf.py assigns
master_doc == Str(<<"doc", "tntcxx_getting_started">>)

source_suffix == Str(<<".rst">>)

project == Str(<<"tntcxx">>)

\* variant: the comma after 'doc/output' is missing, so Python concatenates
\* the two adjacent literals into one string
exclude_patterns_nocomma ==
    List(<< Str(<<"doc", "locale">>),
            Str(<<"doc", "outputdoc", "README.md">>),
            Str(<<"doc", "cleanup.py">>),
            Str(<<"doc", "requirements.txt">>) >>)

\* variant: the whole doc directory is excluded instead of doc/locale
exclude_patterns_doc ==
    List(<< Str(<<"doc">>),
            Str(<<"doc", "output">>),
            Str(<<"doc", "README.md">>),
            Str(<<"doc", "cleanup.py">>),
            Str(<<"doc", "requirements.txt">>) >>)

exclude_patterns ==
    List(<< Str(<<"doc", "locale">>),
            Str(<<"doc", "output">>),
            Str(<<"doc", "README.md">>),
            Str(<<"doc", "cleanup.py">>),
            Str(<<"doc", "requirements.txt">>) >>)

language == Str(<<"en">>)

\* variant: the directory written relative to doc/ instead of the project root
locale_dirs_reldoc == List(<< Str(<<".", "locale">>) >>)

\* variant: locale_dirs = [os.path.join(os.getcwd(), 'doc/locale')]
locale_dirs_cwd == List(<< Str(join(cwd, <<"doc", "locale">>)) >>)

locale_dirs == List(<< Str(<<".", "doc", "locale">>) >>)

gettext_compact == Bool(FALSE)

gettext_location == Bool(TRUE)

\* ------------------------------------------------------ the namespace
\* names bound by the import statements
ImportedNames == {"sys", "os"}

\* the option names conf.py assigns
Options == {"master_doc", "source_suffix", "project", "exclude_patterns",
            "language", "locale_dirs", "gettext_compact", "gettext_location"}

NoBinding == [n \in {} |-> Bool(FALSE)]

\* name = value in namespace f
Bind(f, name, value) ==
    [n \in (DOMAIN f) \cup {name} |-> IF n = name THEN value ELSE f[n]]

\* the part of namespace f that is not an imported module
OptionsOf(f) == [n \in (DOMAIN f) \ ImportedNames |-> f[n]]

StartOf(path, wd, ex) == [path |-> path, cwd |-> wd, exists |-> ex]

Init ==
    /\ pc = "L1"
    /\ ns = NoBinding
    /\ sys_path \in InitialPaths
    /\ cwd \in Dirs
    /\ cwd_exists \in BOOLEAN
    /\ loads = 1
    /\ start = StartOf(sys_path, cwd, cwd_exists)
    /\ first = NoBinding

\* a statement `name = value` at line `at`, followed by the statement at `next`
Assign(at, next, name, value) ==
    /\ pc = at
    /\ ns' = Bind(ns, name, value)
    /\ pc' = next
    /\ UNCHANGED << sys_path, cwd, cwd_exists, loads, start, first >>

\* line 1: import sys
ImportSys == Assign("L1", "L2", "sys", Module("sys"))

\* line 2: import os
ImportOs == Assign("L2", "L4", "os", Module("os"))

\* line 4: sys.path.insert(0, os.path.abspath(''))
\* os.getcwd() raises FileNotFoundError when the working directory is gone;
\* conf.py does not catch it, so the execution ends there.
SysPathInsert ==
    /\ pc = "L4"
    /\ \/ /\ cwd_exists
          /\ sys_path' = ListInsert(sys_path, 0, abspath(<<"">>, cwd))
          /\ pc' = "L6"
       \/ /\ ~cwd_exists
          /\ pc' = "error"
          /\ UNCHANGED sys_path
    /\ UNCHANGED << ns, cwd, cwd_exists, loads, start, first >>

\* line 6
Bind_master_doc == Assign("L6", "L8", "master_doc", master_doc)

\* line 8
Bind_source_suffix == Assign("L8", "L10", "source_suffix", source_suffix)

\* line 10
Bind_project == Assign("L10", "L12", "project", project)

\* lines 12-18
Bind_exclude_patterns == Assign("L12", "L20", "exclude_patterns", exclude_patterns)

\* line 20
Bind_language == Assign("L20", "L21", "language", language)

\* variant of line 21 that also does exclude_patterns += locale_dirs
Bind_locale_dirs_extend ==
    /\ pc = "L21"
    /\ ns' = Bind(Bind(ns, "locale_dirs", locale_dirs), "exclude_patterns",
                  List(ns["exclude_patterns"].v \o locale_dirs.v))
    /\ pc' = "L22"
    /\ UNCHANGED << sys_path, cwd, cwd_exists, loads, start, first >>

\* line 21
Bind_locale_dirs == Assign("L21", "L22", "locale_dirs", locale_dirs)

\* line 22
Bind_gettext_compact == Assign("L22", "L23", "gettext_compact", gettext_compact)

\* line 23, the last statement: the execution of conf.py is complete
Bind_gettext_location ==
    /\ pc = "L23"
    /\ ns' = Bind(ns, "gettext_location", gettext_location)
    /\ pc' = "done"
    /\ first' = IF first = NoBinding THEN OptionsOf(ns') ELSE first
    /\ UNCHANGED << sys_path, cwd, cwd_exists, loads, start >>

\* conf.py is executed again in the same process, from working directory wd,
\* either in a fresh namespace (exec of the file) or in the namespace of the
\* previous execution (reload of the module)
Reload(wd, ex, fresh) ==
    /\ pc \in {"done", "error"}
    /\ loads < MaxLoads
    /\ loads' = loads + 1
    /\ cwd' = wd
    /\ cwd_exists' = ex
    /\ ns' = IF fresh THEN NoBinding ELSE ns
    /\ pc' = "L1"
    /\ start' = StartOf(sys_path, wd, ex)
    /\ UNCHANGED << sys_path, first >>

Next ==
    \/ ImportSys
    \/ ImportOs
    \/ SysPathInsert
    \/ Bind_master_doc
    \/ Bind_source_suffix
    \/ Bind_project
    \/ Bind_exclude_patterns
    \/ Bind_language
    \/ Bind_locale_dirs
    \/ Bind_gettext_compact
    \/ Bind_gettext_location

NextReload ==
    \/ Next
    \/ \E wd \in Dirs, ex \in BOOLEAN, fresh \in BOOLEAN : Reload(wd, ex, fresh)

\* one execution of conf.py
Spec == Init /\ [][Next]_vars

\* up to MaxLoads executions of conf.py in one process
SpecReload == Init /\ [][NextReload]_vars

\* ------------------------------------------------------------- properties
\* a pattern without wildcards excludes a path when it is that path or a
\* directory above it
Excludes(pattern, path) ==
    \/ path = pattern
    \/ /\ Len(pattern) < Len(path)
       /\ SubSeq(path, 1, Len(pattern)) = pattern

\* the entries of list value l, as a set of component sequences
Entries(l) == { l.v[i].v : i \in DOMAIN l.v }

\* C1: once conf.py has been executed, the names it has assigned are exactly
\* the eight options, master_doc = 'doc/tntcxx_getting_started',
\* source_suffix = '.rst', project = 'tntcxx' and language = 'en' are str,
\* exclude_patterns is a list of five str, locale_dirs a list of one str,
\* gettext_compact is False and gettext_location is True.
C1_OptionsBound ==
    pc = "done" =>
        /\ (DOMAIN ns) \ ImportedNames =
               {"master_doc", "source_suffix", "project", "exclude_patterns",
                "language", "locale_dirs", "gettext_compact", "gettext_location"}
        /\ \A n \in (DOMAIN ns) \ ImportedNames : ns[n].kind \in {"str", "bool", "list"}
        /\ ns["master_doc"] = [kind |-> "str", v |-> <<"doc", "tntcxx_getting_started">>]
        /\ ns["source_suffix"] = [kind |-> "str", v |-> <<".rst">>]
        /\ ns["project"] = [kind |-> "str", v |-> <<"tntcxx">>]
        /\ ns["language"] = [kind |-> "str", v |-> <<"en">>]
        /\ ns["exclude_patterns"].kind = "list"
        /\ Len(ns["exclude_patterns"].v) = 5
        /\ \A i \in 1..5 : ns["exclude_patterns"].v[i].kind = "str"
        /\ ns["locale_dirs"].kind = "list"
        /\ Len(ns["locale_dirs"].v) = 1
        /\ ns["locale_dirs"].v[1].kind = "str"
        /\ ns["gettext_compact"] = [kind |-> "bool", v |-> FALSE]
        /\ ns["gettext_location"] = [kind |-> "bool", v |-> TRUE]

C1_Loaded == pc = "done" /\ Cardinality(DOMAIN ns) = 10

\* C2 as stated: after conf.py has been executed, sys.path and the working
\* directory are what they were before.
C2_NothingButOptionsChanged ==
    pc = "done" =>
        /\ sys_path = start.path
        /\ cwd = start.cwd
        /\ cwd_exists = start.exists

\* C2 amended: after conf.py has been executed, the working directory is
\* what it was before, and sys.path still ends with the entries it held before
\* the execution, in their order; only the front of sys.path has changed.
C2_OnlyFrontOfSysPathChanged ==
    pc = "done" =>
        /\ cwd = start.cwd
        /\ cwd_exists = start.exists
        /\ Len(sys_path) >= Len(start.path)
        /\ SubSeq(sys_path, Len(sys_path) - Len(start.path) + 1, Len(sys_path)) = start.path

C2_SysPathChanged == pc = "done" /\ start.path # << >> /\ sys_path # start.path

\* C3: no execution of conf.py ends in an error, whatever the working
\* directory (removed or not) and sys.path it starts from.
C3_NeverError == pc # "error"

\* C4 as stated: every entry of locale_dirs, as the string written, is an
\* entry of exclude_patterns.
C4_LocaleDirsListedVerbatim ==
    pc = "done" => Entries(ns["locale_dirs"]) \subseteq Entries(ns["exclude_patterns"])

\* C4 amended: every entry of locale_dirs, normalised as a path (so that
\* './doc/locale' reads 'doc/locale'), is an entry of exclude_patterns.
C4_LocaleDirsExcluded ==
    pc = "done" =>
        \A d \in Entries(ns["locale_dirs"]) : normpath(d) \in Entries(ns["exclude_patterns"])

C4_DotSlashLocaleDir ==
    /\ pc = "done"
    /\ \E d \in Entries(ns["locale_dirs"]) : d[1] = "." /\ normpath(d) # d

\* C5: once a statement of conf.py has bound an option, no later statement
\* of that execution unbinds, rebinds or mutates it.
C5_OptionsNeverRebound ==
    [][\A n \in (DOMAIN ns) \cap Options : n \in DOMAIN ns' /\ ns'[n] = ns[n]]_vars

C5_LastStatementPending == pc = "L23" /\ Cardinality((DOMAIN ns) \cap Options) = 7

\* C6: master_doc + source_suffix is 'doc/tntcxx_getting_started.rst', and no
\* entry of exclude_patterns is that path or a directory above it.
C6_MasterDocNotExcluded ==
    pc = "done" =>
        LET doc == StrConcat(ns["master_doc"].v, ns["source_suffix"].v)
        IN  /\ doc = <<"doc", "tntcxx_getting_started.rst">>
            /\ \A pattern \in Entries(ns["exclude_patterns"]) : ~Excludes(pattern, doc)

C6_MasterDocUnderDoc ==
    /\ pc = "done"
    /\ Len(StrConcat(ns["master_doc"].v, ns["source_suffix"].v)) = 2
    /\ \E pattern \in Entries(ns["exclude_patterns"]) :
           pattern[1] = StrConcat(ns["master_doc"].v, ns["source_suffix"].v)[1]

\* C7: after an execution of conf.py, sys.path is the working directory of
\* that execution followed by the entries sys.path held before it, unchanged
\* and in order; it is one entry longer, also when the directory was already
\* an entry.
C7_PrependsCwd ==
    pc = "done" =>
        /\ sys_path = << start.cwd >> \o start.path
        /\ Len(sys_path) = Len(start.path) + 1

C7_CwdAlreadyPresent ==
    /\ pc = "done"
    /\ \E k \in DOMAIN start.path : start.path[k] = start.cwd
    /\ sys_path[1] = start.cwd

\* C8: after every completed execution of conf.py, the options have the
\* values the first completed execution gave them.
C8_ReloadSameOptions == pc = "done" => OptionsOf(ns) = first

C8_SecondLoadElsewhere ==
    /\ pc = "done"
    /\ loads = 2
    /\ Len(sys_path) = 2
    /\ sys_path[1] # sys_path[2]
    /\ DOMAIN first = Options

====
